---- MODULE Spec2Model ----
(***************************************************************************)
(* Model of chemprop/parsing.py: the resolution of a training option bag   *)
(* (modify_train_args, update_args_from_checkpoint_dir,                    *)
(* parse_train_args, parse_hyper_opt_args) against a small filesystem.     *)
(*                                                                         *)
(* Python values: an optional value is the empty set (None) or a singleton *)
(* {v}; a path is the sequence of its components relative to the working   *)
(* directory; a float is an integer number of units; a Namespace is a      *)
(* function from attribute names to values, so that del and hasattr are    *)
(* operations on its domain.                                               *)
(***************************************************************************)
EXTENDS Integers, Sequences, FiniteSets, TLC

VARIABLES
    fs,         \* the filesystem: directory path -> listing (entry names, in listing order)
    temp_dir,   \* the module global temp_dir: None or the TemporaryDirectory it is bound to
    garbage,    \* TemporaryDirectory objects no longer referenced and not yet finalized
    n_tmp,      \* number of TemporaryDirectory objects created so far
    calls,      \* number of resolutions started in this process
    raw,        \* the option bag as parse_args() built it
    args,       \* the Namespace as the resolution left it
    outcome,    \* "idle", "ok" (returned) or "error" (raised)
    err,        \* the exception raised, NoErr otherwise
    returned,   \* temporary save_dirs of the configurations returned so far
    prev        \* the configuration the previous resolution of an equal bag returned, else None

vars == <<fs, temp_dir, garbage, n_tmp, calls, raw, args, outcome, err, returned, prev>>

(***************************************************************************)
(* Bounds.                                                                 *)
(***************************************************************************)
MaxCalls == 2
MaxLrLen == 2

(***************************************************************************)
(* Python values.                                                          *)
(***************************************************************************)
None == {}

Some(v) == {v}

The(o) == CHOOSE v \in o : TRUE

SetAttr(ns, k, v) == [a \in DOMAIN ns \cup {k} |-> IF a = k THEN v ELSE ns[a]]

DelAttr(ns, k) == [a \in DOMAIN ns \ {k} |-> ns[a]]

HasAttr(ns, k) == k \in DOMAIN ns

\* bool(x) of None, of a list or of a path held as an optional (the empty path is '')
Truthy(o) == o # None /\ The(o) # <<>>

\* a Python object whose type varies: its type name and its value
Obj(type, val) == [type |-> type, val |-> val]

OptObj(type, o) == IF o = None THEN Obj("NoneType", None) ELSE Obj(type, o)

TruthyObj(x) == IF x.type = "bool" THEN x.val ELSE Truthy(x.val)

NoErr == [exc |-> "", line |-> 0, at |-> 0]

\* an exception of type exc raised at source line `line`, reached from line `at` of modify_train_args
Raise(exc, line, at) == [exc |-> exc, line |-> line, at |-> at]

(***************************************************************************)
(* The filesystem (os.path, os.makedirs, os.walk).                         *)
(***************************************************************************)
Join(root, name) == Append(root, name)

Parent(p) == SubSeq(p, 1, Len(p) - 1)

Last(p) == p[Len(p)]

Names(listing) == {listing[i] : i \in 1..Len(listing)}

IsDir(f, p) == p \in DOMAIN f

IsFile(f, p) == p \notin DOMAIN f /\ Len(p) > 0 /\ Parent(p) \in DOMAIN f /\ Last(p) \in Names(f[Parent(p)])

Exists(f, p) == IsDir(f, p) \/ IsFile(f, p)

Prefixes(p) == {SubSeq(p, 1, n) : n \in 1..Len(p)}

\* os.makedirs(p, exist_ok=True), when no component of p is a file
MakeDirs(f, p) ==
    LET new == {q \in Prefixes(p) : ~IsDir(f, q)}
        listing(d) == IF d \in DOMAIN f THEN f[d] ELSE <<>>
        added(d) == {q \in new : Parent(q) = d}
    IN  [d \in DOMAIN f \cup new |->
            IF added(d) = {} THEN listing(d)
            ELSE Append(listing(d), Last(CHOOSE q \in added(d) : TRUE))]

\* shutil.rmtree of a directory directly under its parent
RemoveTree(f, p) ==
    LET keep == {d \in DOMAIN f : ~(Len(d) >= Len(p) /\ SubSeq(d, 1, Len(p)) = p)}
    IN  [d \in keep |-> IF d = Parent(p) THEN SelectSeq(f[d], LAMBDA n : n # Last(p)) ELSE f[d]]

\* one (root, dirs, files) triple of os.walk
WalkEntry(f, top) ==
    [root  |-> top,
     dirs  |-> SelectSeq(f[top], LAMBDA n : IsDir(f, Join(top, n))),
     files |-> SelectSeq(f[top], LAMBDA n : ~IsDir(f, Join(top, n)))]

RECURSIVE WalkStack(_, _)
\* os.walk, top-down: the triples of the directories on the stack, depth first
WalkStack(f, stack) ==
    IF stack = <<>> THEN <<>>
    ELSE LET top == Head(stack)
             e == WalkEntry(f, top)
             subs == [i \in 1..Len(e.dirs) |-> Join(top, e.dirs[i])]
         IN  <<e>> \o WalkStack(f, subs \o Tail(stack))

\* os.walk(top): nothing when top is not a directory (scandir errors are ignored)
Walk(f, top) == IF IsDir(f, top) THEN WalkStack(f, <<top>>) ELSE <<>>

InitFS ==
    (<<>> :> <<"data.csv", "vocab.txt", "feat.npy", "folds.pkl", "ckpt_none", "ckpt_one",
               "ckpt_many", "chunks", "chunks_sub", "chunks_empty">>)
    @@ (<<"ckpt_none">> :> <<"notes.txt", "sub", "model.pt">>)
    @@ (<<"ckpt_none", "sub">> :> <<"model.pth">>)
    @@ (<<"ckpt_none", "model.pt">> :> <<"weights.bin">>)
    @@ (<<"ckpt_one">> :> <<"fold_0">>)
    @@ (<<"ckpt_one", "fold_0">> :> <<"model_0">>)
    @@ (<<"ckpt_one", "fold_0", "model_0">> :> <<"args.json", "model.pt">>)
    @@ (<<"ckpt_many">> :> <<"model.pt", "a", "b">>)
    @@ (<<"ckpt_many", "a">> :> <<"log.txt", "model.pt">>)
    @@ (<<"ckpt_many", "b">> :> <<"c">>)
    @@ (<<"ckpt_many", "b", "c">> :> <<"model.pt", "model.pt.bak">>)
    @@ (<<"chunks">> :> <<"a.csv", "b.csv">>)
    @@ (<<"chunks_sub">> :> <<"part">>)
    @@ (<<"chunks_sub", "part">> :> <<"c.csv">>)
    @@ (<<"chunks_empty">> :> <<>>)

\* TemporaryDirectory().name of the n-th object created
TmpName(n) == <<"tmp" \o ToString(n)>>

(***************************************************************************)
(* add_train_args: the attributes parse_args() sets and their defaults.    *)
(* Rates are in units of 1e-4, data_path and dataset_type are required.    *)
(***************************************************************************)
Defaults ==
    [data_path |-> <<"data.csv">>, test |-> FALSE, vocab_path |-> None,
     features_only |-> FALSE, features_generator |-> None, features_path |-> None,
     predict_features |-> FALSE, predict_features_and_task |-> FALSE,
     save_dir |-> None, checkpoint_dir |-> None, dataset_type |-> "regression",
     split_type |-> "random", scaffold_overlap |-> None, folds_file |-> None,
     test_fold_index |-> None, metric |-> None, no_cuda |-> FALSE, epochs |-> 30,
     warmup_epochs |-> <<2>>, separate_ffn_lr |-> FALSE, init_lr |-> <<1>>,
     max_lr |-> <<10>>, final_lr |-> <<1>>, lr_scaler |-> <<1>>, weight_decay |-> <<0>>,
     no_target_scaling |-> FALSE, no_features_scaling |-> FALSE,
     bert_vocab_func |-> "feature_vector", kernel_func |-> None, ensemble_size |-> 1,
     hidden_size |-> 300, dropout |-> 0, jtnn |-> FALSE, ffn_input_dropout |-> None,
     ffn_dropout |-> None, ffn_hidden_size |-> None, ffn_num_layers |-> 2]

DatasetTypes ==
    {"classification", "regression", "regression_with_binning", "unsupervised",
     "bert_pretraining", "kernel"}

Metrics ==
    {"auc", "prc-auc", "rmse", "mae", "r2", "accuracy", "argmax_accuracy", "log_loss",
     "majority_baseline_accuracy"}

SplitTypes == {"random", "scaffold", "scaffold_one", "scaffold_overlap", "predetermined"}

KernelFuncs == {"features", "features_dot", "WL"}

BertVocabFuncs == {"atom", "atom_features", "feature_vector", "substructure"}

(***************************************************************************)
(* A frame is the state a resolution works on: the Namespace, the          *)
(* exception raised so far, the filesystem, the global temp_dir and the    *)
(* TemporaryDirectory objects, and the platform (GPU, reference counting). *)
(***************************************************************************)
\* an exception is propagating: every statement that follows is skipped
Raised(f) == f.err # NoErr

\* TemporaryDirectory cleanup (its finalizer): the directory tree is removed
Cleanup(f, n) == IF IsDir(f, TmpName(n)) THEN RemoveTree(f, TmpName(n)) ELSE f

\* lines 321-325
SaveDirStep(f) ==
    IF f.args.save_dir # None
    THEN IF \E q \in Prefixes(The(f.args.save_dir)) : IsFile(f.fs, q)
         THEN [f EXCEPT !.err = Raise(IF IsFile(f.fs, The(f.args.save_dir)) THEN "FileExistsError"
                                            ELSE "NotADirectoryError", 322, 322)]
         ELSE [f EXCEPT !.fs = MakeDirs(f.fs, The(f.args.save_dir))]
    ELSE LET n == f.n_tmp + 1
             old == f.temp_dir
             fs1 == MakeDirs(f.fs, TmpName(n))
         IN  [f EXCEPT !.n_tmp = n,
                       !.temp_dir = Some(n),
                       !.fs = IF old # None /\ f.refcounted THEN Cleanup(fs1, The(old)) ELSE fs1,
                       !.garbage = IF old # None /\ ~f.refcounted THEN @ \cup old ELSE @,
                       !.args = [@ EXCEPT !.save_dir = Some(TmpName(n))]]

\* lines 327-334
InvertFlags(f) ==
    IF Raised(f) THEN f ELSE
    LET a1 == DelAttr(SetAttr(f.args, "cuda", ~f.args.no_cuda /\ f.cuda_available), "no_cuda")
        a2 == DelAttr(SetAttr(a1, "target_scaling", ~a1.no_target_scaling), "no_target_scaling")
        a3 == DelAttr(SetAttr(a2, "features_scaling", ~a2.no_features_scaling), "no_features_scaling")
    IN  [f EXCEPT !.args = a3]

\* DefaultMetric with accuracy as the default of classification
DefaultMetricAccuracy(a) ==
    IF a.dataset_type = "classification" THEN Some("accuracy")
    ELSE IF a.dataset_type = "unsupervised" THEN Some("log_loss")
    ELSE IF a.dataset_type = "bert_pretraining"
         THEN IF a.bert_vocab_func = "feature_vector" THEN Some("rmse") ELSE Some("log_loss")
    ELSE IF a.dataset_type = "kernel"
         THEN IF a.kernel_func \in {Some("features"), Some("features_dot"), Some("WL")}
              THEN Some("rmse") ELSE None
    ELSE Some("rmse")

\* lines 337-353: the metric chosen when none was supplied; None when the kernel function has none
DefaultMetric(a) ==
    IF a.dataset_type = "classification" THEN Some("auc")
    ELSE IF a.dataset_type = "unsupervised" THEN Some("log_loss")
    ELSE IF a.dataset_type = "bert_pretraining"
         THEN IF a.bert_vocab_func = "feature_vector" THEN Some("rmse")
              ELSE IF a.metric \notin {Some("log_loss"), Some("argmax_accuracy"),
                                       Some("majority_baseline_accuracy")}
                   THEN Some("log_loss") ELSE a.metric
    ELSE IF a.dataset_type = "kernel"
         THEN IF a.kernel_func \in {Some("features"), Some("features_dot"), Some("WL")}
              THEN Some("rmse") ELSE None
    ELSE Some("rmse")

\* lines 336-353
MetricStep(f) ==
    IF Raised(f) THEN f ELSE
    IF f.args.metric # None THEN f
    ELSE IF DefaultMetric(f.args) = None
         THEN [f EXCEPT !.err = Raise("ValueError", 351, 351)]
         ELSE [f EXCEPT !.args = [@ EXCEPT !.metric = DefaultMetric(f.args)]]

\* MetricAllowed with mae accepted for kernel as well
MetricAllowedKernelMae(dataset_type, metric) ==
    \/ (dataset_type = "classification" /\ metric \in {"auc", "prc-auc", "accuracy"})
    \/ (dataset_type \in {"regression", "regression_with_binning"} /\ metric \in {"rmse", "mae", "r2"})
    \/ (dataset_type = "kernel" /\ metric \in {"rmse", "mae"})
    \/ dataset_type \in {"unsupervised", "bert_pretraining"}

\* lines 355-358: the condition under which no error is raised
MetricAllowed(dataset_type, metric) ==
    ~(~( \/ (dataset_type = "classification" /\ metric \in {"auc", "prc-auc", "accuracy"})
         \/ (    (dataset_type = "regression" \/ dataset_type = "regression_with_binning")
             /\ metric \in {"rmse", "mae", "r2"})
         \/ (dataset_type = "kernel" /\ metric \in {"rmse"}))
      /\ ~(dataset_type \in {"unsupervised", "bert_pretraining"}))

\* lines 355-359
MetricCheck(f) ==
    IF Raised(f) THEN f ELSE
    IF ~MetricAllowed(f.args.dataset_type, The(f.args.metric))
    THEN [f EXCEPT !.err = Raise("ValueError", 359, 359)]
    ELSE f

\* line 361
MinimizeScore(metric) == metric \in {"rmse", "mae", "log_loss"}

MinimizeStep(f) ==
    IF Raised(f) THEN f ELSE
    [f EXCEPT !.args = SetAttr(@, "minimize_score", MinimizeScore(The(f.args.metric)))]

RECURSIVE Flatten(_)
Flatten(ss) == IF ss = <<>> THEN <<>> ELSE Head(ss) \o Flatten(Tail(ss))

\* CheckpointPaths looking at the files of the top directory only
CheckpointPathsTopLevel(f, dir) ==
    IF ~IsDir(f, dir) THEN <<>>
    ELSE LET e == WalkEntry(f, dir)
             found == SelectSeq(e.files, LAMBDA fname : fname = "model.pt")
         IN  [i \in 1..Len(found) |-> Join(e.root, found[i])]

\* lines 306-309: the paths appended while walking the checkpoint directory
CheckpointPaths(f, dir) ==
    LET w == Walk(f, dir)
        found(e) == SelectSeq(e.files, LAMBDA fname : fname = "model.pt")
        paths(e) == [i \in 1..Len(found(e)) |-> Join(e.root, found(e)[i])]
    IN  Flatten([i \in 1..Len(w) |-> paths(w[i])])

\* lines 298-314, called from line 363
UpdateArgsFromCheckpointDir(f) ==
    IF Raised(f) THEN f ELSE
    IF f.args.checkpoint_dir = None
    THEN [f EXCEPT !.args = SetAttr(@, "checkpoint_paths", None)]
    ELSE LET paths == CheckpointPaths(f.fs, The(f.args.checkpoint_dir))
             a1 == SetAttr(f.args, "checkpoint_paths", Some(paths))
             a2 == [a1 EXCEPT !.ensemble_size = Len(paths)]
         IN  [f EXCEPT !.args = a2,
                       !.err = IF a2.ensemble_size = 0 THEN Raise("ValueError", 314, 363) ELSE @]

\* lines 365-369; os.path.exists(None) raises TypeError
JtnnCheck(f) ==
    IF Raised(f) THEN f ELSE
    IF ~f.args.jtnn THEN f
    ELSE IF ~HasAttr(f.args, "vocab_path") THEN [f EXCEPT !.err = Raise("ValueError", 367, 367)]
    ELSE IF f.args.vocab_path = None THEN [f EXCEPT !.err = Raise("TypeError", 368, 368)]
    ELSE IF ~Exists(f.fs, The(f.args.vocab_path)) THEN [f EXCEPT !.err = Raise("ValueError", 369, 369)]
    ELSE f

\* x or y
PyOr(x, y) == IF TruthyObj(x) THEN x ELSE y

\* FeatureSource that looks at features_generator only
FeatureSourceGeneratorOnly(a) == OptObj("list", a.features_generator)

\* the object args.features_generator or args.features_path (lines 371, 378)
FeatureSource(a) == PyOr(OptObj("list", a.features_generator), OptObj("str", a.features_path))

\* line 371: the object features_generator or features_path
UseInputFeatures(f) ==
    IF Raised(f) THEN f ELSE
    [f EXCEPT !.args = SetAttr(@, "use_input_features", FeatureSource(f.args))]

\* PredictFeaturesAndTask that checks the dataset type and leaves predict_features alone
PredictFeaturesAndTaskUnforced(f) ==
    IF Raised(f) THEN f ELSE
    IF ~f.args.predict_features_and_task THEN f
    ELSE IF f.args.dataset_type # "regression" THEN [f EXCEPT !.err = Raise("AssertionError", 374, 374)]
    ELSE f

\* lines 373-375
PredictFeaturesAndTask(f) ==
    IF Raised(f) THEN f ELSE
    IF ~f.args.predict_features_and_task THEN f
    ELSE IF f.args.dataset_type # "regression" THEN [f EXCEPT !.err = Raise("AssertionError", 374, 374)]
    ELSE [f EXCEPT !.args = [@ EXCEPT !.predict_features = TRUE]]

\* lines 377-379
PredictFeatures(f) ==
    IF Raised(f) THEN f ELSE
    IF ~(f.args.predict_features \/ f.args.kernel_func \in {Some("features"), Some("features_dot")})
    THEN f
    ELSE IF ~TruthyObj(FeatureSource(f.args))
    THEN [f EXCEPT !.err = Raise("AssertionError", 378, 378)]
    ELSE [f EXCEPT !.args = [@ EXCEPT !.use_input_features = Obj("bool", FALSE)]]

\* lines 381-383
BertCheck(f) ==
    IF Raised(f) THEN f ELSE
    IF f.args.dataset_type # "bert_pretraining" THEN f
    ELSE IF f.args.features_only THEN [f EXCEPT !.err = Raise("AssertionError", 382, 382)]
    ELSE [f EXCEPT !.args = [@ EXCEPT !.use_input_features = Obj("bool", FALSE)]]

\* ForceSeparateFfnLr keeping the option as supplied
ForceSeparateFfnLrNever(a) == a.separate_ffn_lr

\* lines 385-386
ForceSeparateFfnLr(a) == IF a.dataset_type = "unsupervised" THEN TRUE ELSE a.separate_ffn_lr

UnsupervisedStep(f) ==
    IF Raised(f) THEN f ELSE
    [f EXCEPT !.args = [@ EXCEPT !.separate_ffn_lr = ForceSeparateFfnLr(f.args)]]

\* line 388: 1 + args.separate_ffn_lr
NumLrs(separate_ffn_lr) == 1 + (IF separate_ffn_lr THEN 1 ELSE 0)

LrParams == <<"init_lr", "max_lr", "final_lr", "lr_scaler", "warmup_epochs", "weight_decay">>

\* line 391: the asserted condition
GroupCountOk(lr_param, num_lrs) == 1 <= Len(lr_param) /\ Len(lr_param) <= num_lrs

\* Broadcast that never duplicates
BroadcastNever(lr_param, separate_ffn_lr) == lr_param

\* lines 392-394: lr_param *= 2
Broadcast(lr_param, separate_ffn_lr) ==
    IF separate_ffn_lr /\ Len(lr_param) = 1 THEN lr_param \o lr_param ELSE lr_param

RECURSIVE BroadcastLoop(_, _)
\* lines 390-394: the loop over lr_params from the k-th on
BroadcastLoop(f, k) ==
    IF k > Len(LrParams) THEN f
    ELSE LET p == LrParams[k]
         IN  IF ~GroupCountOk(f.args[p], f.args.num_lrs)
             THEN [f EXCEPT !.err = Raise("AssertionError", 391, 391)]
             ELSE BroadcastLoop([f EXCEPT !.args = [@ EXCEPT ![p] = Broadcast(@, f.args.separate_ffn_lr)]],
                                k + 1)

\* Scale with the first scale entry for every group
ScaleByFirst(lr, lr_scaler, num_lrs) ==
    [i \in 1..Len(lr) |-> IF i <= num_lrs THEN lr[i] * lr_scaler[1] ELSE lr[i]]

\* lines 397-399: one rate sequence after the loop over range(num_lrs)
Scale(lr, lr_scaler, num_lrs) ==
    [i \in 1..Len(lr) |-> IF i <= num_lrs THEN lr[i] * lr_scaler[i] ELSE lr[i]]

\* lines 396-401
ScaleStep(f) ==
    IF Raised(f) THEN f ELSE
    LET a == f.args
        a1 == [a EXCEPT !.init_lr = Scale(@, a.lr_scaler, a.num_lrs),
                        !.max_lr = Scale(@, a.lr_scaler, a.num_lrs),
                        !.final_lr = Scale(@, a.lr_scaler, a.num_lrs)]
    IN  [f EXCEPT !.args = DelAttr(a1, "lr_scaler")]

\* lines 388-401
LrStep(f) ==
    IF Raised(f) THEN f ELSE
    LET f1 == [f EXCEPT !.args = SetAttr(@, "num_lrs", NumLrs(f.args.separate_ffn_lr))]
    IN  ScaleStep(BroadcastLoop(f1, 1))

\* line 403
FfnLayersCheck(f) ==
    IF Raised(f) THEN f ELSE
    IF ~(f.args.ffn_num_layers >= 1) THEN [f EXCEPT !.err = Raise("AssertionError", 403, 403)] ELSE f

\* lines 405-410
FfnDefaults(f) ==
    IF Raised(f) THEN f ELSE
    [f EXCEPT !.args = [@ EXCEPT
        !.ffn_hidden_size = IF @ = None THEN Some(f.args.hidden_size) ELSE @,
        !.ffn_input_dropout = IF @ = None THEN Some(f.args.dropout) ELSE @,
        !.ffn_dropout = IF @ = None THEN Some(f.args.dropout) ELSE @]]

\* line 412
OverlapRule(a) == (a.split_type = "scaffold_overlap") = (a.scaffold_overlap # None)

\* PredeterminedRule with the comparison read left to right, (x == y) == z
PredeterminedRuleUnchained(a) ==
    ((a.split_type = "predetermined") = (a.folds_file # None)) = (a.test_fold_index # None)

\* line 413: a chained comparison, x == y == z is (x == y) and (y == z)
PredeterminedRule(a) ==
    /\ (a.split_type = "predetermined") = (a.folds_file # None)
    /\ (a.folds_file # None) = (a.test_fold_index # None)

\* lines 412-413
SplitCheck(f) ==
    IF Raised(f) THEN f ELSE
    IF ~OverlapRule(f.args) THEN [f EXCEPT !.err = Raise("AssertionError", 412, 412)]
    ELSE IF ~PredeterminedRule(f.args) THEN [f EXCEPT !.err = Raise("AssertionError", 413, 413)]
    ELSE f

\* lines 415-416
TestStep(f) ==
    IF Raised(f) THEN f ELSE
    IF f.args.test THEN [f EXCEPT !.args = [@ EXCEPT !.epochs = 0]] ELSE f

\* ChunkStep taking the first entry of the directory, file or not
ChunkStepAnyEntry(f) ==
    IF Raised(f) THEN f ELSE
    IF IsDir(f.fs, f.args.data_path)
    THEN LET a1 == SetAttr(f.args, "prespecified_chunk_dir", Some(f.args.data_path))
             names == f.fs[a1.data_path]
         IN  IF names = <<>>
             THEN [f EXCEPT !.args = a1, !.err = Raise("IndexError", 421, 421)]
             ELSE [f EXCEPT !.args = [a1 EXCEPT !.data_path = Join(a1.data_path, names[1])]]
    ELSE [f EXCEPT !.args = SetAttr(@, "prespecified_chunk_dir", None)]

\* lines 418-424; names[0] of an empty listing raises IndexError
ChunkStep(f) ==
    IF Raised(f) THEN f ELSE
    IF IsDir(f.fs, f.args.data_path)
    THEN LET a1 == SetAttr(f.args, "prespecified_chunk_dir", Some(f.args.data_path))
             e == Walk(f.fs, a1.data_path)[1]
         IN  IF e.files = <<>>
             THEN [f EXCEPT !.args = a1, !.err = Raise("IndexError", 421, 421)]
             ELSE [f EXCEPT !.args = [a1 EXCEPT !.data_path = Join(e.root, e.files[1])]]
    ELSE [f EXCEPT !.args = SetAttr(@, "prespecified_chunk_dir", None)]

\* ModifyTrainArgs with the checkpoint discovery moved ahead of the metric steps
ModifyTrainArgsCheckpointFirst(f) ==
    ChunkStep(TestStep(SplitCheck(FfnDefaults(FfnLayersCheck(LrStep(UnsupervisedStep(
    BertCheck(PredictFeatures(PredictFeaturesAndTask(UseInputFeatures(JtnnCheck(
    MinimizeStep(MetricCheck(MetricStep(UpdateArgsFromCheckpointDir(InvertFlags(
    SaveDirStep(f))))))))))))))))))

\* lines 317-424
ModifyTrainArgs(f) ==
    ChunkStep(TestStep(SplitCheck(FfnDefaults(FfnLayersCheck(LrStep(UnsupervisedStep(
    BertCheck(PredictFeatures(PredictFeaturesAndTask(UseInputFeatures(JtnnCheck(
    UpdateArgsFromCheckpointDir(MinimizeStep(MetricCheck(MetricStep(InvertFlags(
    SaveDirStep(f))))))))))))))))))

\* lines 293-295
ModifyHyperOptArgs(f) ==
    IF Raised(f) THEN f ELSE
    IF \E q \in Prefixes(f.args.results_dir) : IsFile(f.fs, q)
    THEN [f EXCEPT !.err = Raise(IF IsFile(f.fs, f.args.results_dir) THEN "FileExistsError"
                                       ELSE "NotADirectoryError", 295, 295)]
    ELSE [f EXCEPT !.fs = MakeDirs(f.fs, f.args.results_dir)]

(***************************************************************************)
(* The option bags parse_args() builds: the defaults overridden by the     *)
(* options of one area of the command line at a time.                      *)
(***************************************************************************)
\* a rate sequence of each length up to MaxLrLen, entries b, b + 1, ...
LrChoices(b) == {[i \in 1..n |-> b + i - 1] : n \in 0..MaxLrLen}

MetricBags ==
    {[dataset_type |-> d, metric |-> m, bert_vocab_func |-> b, kernel_func |-> k,
      features_path |-> p] @@ Defaults :
        d \in DatasetTypes, m \in {None} \cup {Some(x) : x \in Metrics},
        b \in {"feature_vector", "atom"}, k \in {None} \cup {Some(x) : x \in KernelFuncs},
        p \in {None, Some(<<"feat.npy">>)}}

CheckpointBags ==
    {[checkpoint_dir |-> c, ensemble_size |-> e, metric |-> m] @@ Defaults :
        c \in {None, Some(<<"ckpt_none">>), Some(<<"ckpt_one">>), Some(<<"ckpt_many">>),
               Some(<<"ckpt_many", "b">>), Some(<<"missing">>), Some(<<"data.csv">>)},
        e \in {1, 5}, m \in {None, Some("auc")}}

LrBags ==
    {[dataset_type |-> d, separate_ffn_lr |-> s, init_lr |-> il, max_lr |-> ml, final_lr |-> fl,
      lr_scaler |-> sc, warmup_epochs |-> we, weight_decay |-> wd] @@ Defaults :
        d \in {"regression", "unsupervised"}, s \in BOOLEAN, il \in LrChoices(2),
        ml \in LrChoices(5), fl \in LrChoices(7), sc \in LrChoices(2), we \in LrChoices(11),
        wd \in LrChoices(13)}

ModeBags ==
    {[dataset_type |-> d, jtnn |-> j, vocab_path |-> v, predict_features_and_task |-> pt,
      predict_features |-> pf, features_generator |-> fg, features_path |-> fp,
      features_only |-> fo, ffn_num_layers |-> n] @@ Defaults :
        d \in {"regression", "classification", "bert_pretraining"}, j \in BOOLEAN,
        v \in {None, Some(<<"vocab.txt">>), Some(<<"missing.vocab">>)}, pt \in BOOLEAN,
        pf \in BOOLEAN, fg \in {None, Some(<<>>), Some(<<"morgan">>)},
        fp \in {None, Some(<<"feat.npy">>)}, fo \in BOOLEAN, n \in {0, 2}}

SplitBags ==
    {[split_type |-> st, scaffold_overlap |-> so, folds_file |-> ff, test_fold_index |-> ti,
      save_dir |-> sd] @@ Defaults :
        st \in SplitTypes, so \in {None, Some(1)}, ff \in {None, Some(<<"folds.pkl">>)},
        ti \in {None, Some(0)},
        sd \in {None, Some(<<"out", "run">>), Some(<<"data.csv">>)}}

MiscBags ==
    {[no_cuda |-> nc, no_target_scaling |-> nt, no_features_scaling |-> nf, test |-> t,
      ffn_hidden_size |-> fh, ffn_dropout |-> fd, data_path |-> dp] @@ Defaults :
        nc \in BOOLEAN, nt \in BOOLEAN, nf \in BOOLEAN, t \in BOOLEAN,
        fh \in {None, Some(64)}, fd \in {None, Some(1)},
        dp \in {<<"data.csv">>, <<"chunks">>, <<"chunks_sub">>, <<"chunks_empty">>,
                <<"missing.csv">>}}

\* bags that break several rules at once
OrderBags ==
    {[checkpoint_dir |-> c, metric |-> m, jtnn |-> j, ffn_num_layers |-> n, split_type |-> st,
      data_path |-> dp] @@ Defaults :
        c \in {None, Some(<<"ckpt_none">>), Some(<<"ckpt_one">>)}, m \in {None, Some("auc")},
        j \in BOOLEAN, n \in {0, 2}, st \in {"random", "predetermined"},
        dp \in {<<"data.csv">>, <<"chunks_empty">>}}

\* the bags and the platform's torch.cuda.is_available()
TrainInputs ==
    ((MetricBags \cup CheckpointBags \cup LrBags \cup ModeBags \cup SplitBags \cup OrderBags)
        \X {FALSE})
    \cup (MiscBags \X BOOLEAN)

\* add_hyper_opt_args: results_dir is required
HyperBags ==
    {[results_dir |-> rd, dataset_type |-> d, metric |-> m, jtnn |-> j, data_path |-> dp]
        @@ Defaults :
        rd \in {<<"results">>, <<"out", "hyper">>, <<"data.csv", "r">>},
        d \in {"regression", "classification"}, m \in {None, Some("mae")}, j \in BOOLEAN,
        dp \in {<<"data.csv">>, <<"chunks_empty">>}}

(***************************************************************************)
(* The process.                                                            *)
(***************************************************************************)
Init ==
    /\ fs = InitFS
    /\ temp_dir = None
    /\ garbage = {}
    /\ n_tmp = 0
    /\ calls = 0
    /\ raw = Defaults
    /\ args = Defaults
    /\ outcome = "idle"
    /\ err = NoErr
    /\ returned = {}
    /\ prev = None

Frame(bag, gpu, rc) ==
    [args |-> bag, err |-> NoErr, fs |-> fs, temp_dir |-> temp_dir, garbage |-> garbage,
     n_tmp |-> n_tmp, cuda_available |-> gpu, refcounted |-> rc]

\* the state an entry point leaves when it returns or raises
Finish(bag, r) ==
    /\ raw' = bag
    /\ args' = r.args
    /\ err' = r.err
    /\ outcome' = IF r.err = NoErr THEN "ok" ELSE "error"
    /\ fs' = r.fs
    /\ temp_dir' = r.temp_dir
    /\ garbage' = r.garbage
    /\ n_tmp' = r.n_tmp
    /\ calls' = calls + 1
    /\ returned' = IF r.err = NoErr /\ bag.save_dir = None
                   THEN returned \cup r.args.save_dir ELSE returned

\* lines 439-444; rc tells whether the interpreter finalizes an object as soon as its last
\* reference goes (it only matters once temp_dir is bound)
ParseTrainArgs ==
    /\ outcome = "idle"
    /\ calls < MaxCalls
    /\ \E in \in TrainInputs, rc \in BOOLEAN :
          /\ temp_dir = None => rc
          /\ Finish(in[1], ModifyTrainArgs(Frame(in[1], in[2], rc)))
    /\ prev' = None

\* parse_train_args once more in the same process, on the same platform, with the same
\* command line: parse_args() builds a bag equal to the one just resolved
ParseTrainArgsAgain ==
    /\ outcome = "ok"
    /\ calls < MaxCalls
    /\ \E rc \in BOOLEAN :
          /\ temp_dir = None => rc
          /\ Finish(raw, ModifyTrainArgs(Frame(raw, args.cuda, rc)))
    /\ prev' = Some(args)

\* lines 427-436
ParseHyperOptArgs ==
    /\ outcome = "idle"
    /\ calls < MaxCalls
    /\ \E bag \in HyperBags, rc \in BOOLEAN :
          /\ temp_dir = None => rc
          /\ Finish(bag, ModifyHyperOptArgs(ModifyTrainArgs(Frame(bag, FALSE, rc))))
    /\ prev' = None

\* the entry point is left and its Namespace with it
Return ==
    /\ outcome # "idle"
    /\ outcome' = "idle"
    /\ raw' = Defaults
    /\ args' = Defaults
    /\ err' = NoErr
    /\ prev' = None
    /\ UNCHANGED <<fs, temp_dir, garbage, n_tmp, calls, returned>>

\* the collector finalizes a TemporaryDirectory nothing refers to any more
Finalize ==
    \E n \in garbage :
        /\ fs' = Cleanup(fs, n)
        /\ garbage' = garbage \ {n}
        /\ UNCHANGED <<temp_dir, n_tmp, calls, raw, args, outcome, err, returned, prev>>

Next == ParseTrainArgs \/ ParseTrainArgsAgain \/ ParseHyperOptArgs \/ Return \/ Finalize

Spec == Init /\ [][Next]_vars

(***************************************************************************)
(* Properties.                                                             *)
(***************************************************************************)
\* the resolution ran past line `line` of modify_train_args: it returned, or raised later
Passed(line) == outcome # "idle" /\ (err = NoErr \/ err.at > line)

\* the resolution raised at one of `lines`, unless it had already raised before line `first`
FailsAt(lines, first) == outcome = "error" /\ (err.line \in lines \/ err.at < first)

\* the table of default metrics, None where no default exists
TableMetric(bag) ==
    CASE bag.dataset_type = "classification" -> Some("auc")
      [] bag.dataset_type = "unsupervised" -> Some("log_loss")
      [] bag.dataset_type = "bert_pretraining" ->
            IF bag.bert_vocab_func = "feature_vector" THEN Some("rmse") ELSE Some("log_loss")
      [] bag.dataset_type = "kernel" ->
            IF bag.kernel_func \in {Some(k) : k \in KernelFuncs} THEN Some("rmse") ELSE None
      [] OTHER -> Some("rmse")

\* C1: with no metric supplied the metric is the one of the table (kernel with an
\* unrecognized kernel function fails at line 351), and every returned configuration
\* has minimize_score true exactly for rmse, mae and log_loss.
C1_DefaultMetric ==
    /\ (outcome # "idle" /\ raw.metric = None) =>
          IF TableMetric(raw) = None THEN FailsAt({351}, 336)
          ELSE Passed(353) => args.metric = TableMetric(raw)
    /\ outcome = "ok" =>
          args.minimize_score = (args.metric \in {Some("rmse"), Some("mae"), Some("log_loss")})

C1_Witness ==
    /\ outcome = "ok" /\ raw.metric = None /\ raw.dataset_type = "classification"
    /\ args.metric = Some("auc") /\ ~args.minimize_score

\* the allowed metric set of a dataset type
AllowedMetrics(d) ==
    CASE d = "classification" -> {"auc", "prc-auc", "accuracy"}
      [] d \in {"regression", "regression_with_binning"} -> {"rmse", "mae", "r2"}
      [] d = "kernel" -> {"rmse"}
      [] d \in {"unsupervised", "bert_pretraining"} -> Metrics

\* C2: a returned configuration has a metric of the allowed set of its dataset type, and
\* a resolution whose metric, supplied or defaulted, is outside that set raises at line 359.
C2_MetricAllowed ==
    /\ outcome = "ok" => The(args.metric) \in AllowedMetrics(args.dataset_type)
    /\ (Passed(353) /\ The(args.metric) \notin AllowedMetrics(raw.dataset_type)) =>
          outcome = "error" /\ err.exc = "ValueError" /\ err.line = 359

C2_Witness ==
    /\ outcome = "error" /\ err.line = 359
    /\ raw.dataset_type = "kernel" /\ raw.metric = Some("mae")

\* every file of the filesystem
AllFiles(f) == UNION {{Join(d, n) : n \in Names(f[d])} : d \in DOMAIN f} \ DOMAIN f

\* the files named model.pt at any depth under dir
ModelFilesUnder(f, dir) ==
    {p \in AllFiles(f) : Len(p) > Len(dir) /\ SubSeq(p, 1, Len(dir)) = dir /\ Last(p) = "model.pt"}

\* C3: with a checkpoint_dir holding k files named model.pt at any depth, k >= 1 gives k
\* checkpoint paths (those files) and ensemble_size = k whatever the caller supplied,
\* and k = 0 raises at line 314.
C3_CheckpointCount ==
    (Passed(361) /\ raw.checkpoint_dir # None) =>
        LET found == ModelFilesUnder(fs, The(raw.checkpoint_dir))
            k == Cardinality(found)
        IN  IF k = 0 THEN outcome = "error" /\ err.line = 314
            ELSE /\ Passed(363)
                 /\ Len(The(args.checkpoint_paths)) = k
                 /\ Names(The(args.checkpoint_paths)) = found
                 /\ args.ensemble_size = k

C3_Witness ==
    /\ outcome = "ok" /\ raw.checkpoint_dir = Some(<<"ckpt_many">>) /\ raw.ensemble_size = 5
    /\ Len(The(args.checkpoint_paths)) = 3 /\ args.ensemble_size = 3

RateParams == {"init_lr", "max_lr", "final_lr", "warmup_epochs", "weight_decay"}

\* some rate sequence of the bag has a length outside 1..g
BadGroupCount(bag, g) ==
    \E p \in RateParams \cup {"lr_scaler"} : ~(1 <= Len(bag[p]) /\ Len(bag[p]) <= g)

\* C4 as stated: num_lr_groups is 1 + (1 if the option separate_ffn_lr was supplied); a
\* sequence with a length outside 1..num_lr_groups makes the resolution fail, and a
\* returned configuration has exactly num_lr_groups entries in each remaining sequence.
C4_AsStated ==
    LET g == IF raw.separate_ffn_lr THEN 2 ELSE 1
    IN  /\ (outcome # "idle" /\ BadGroupCount(raw, g)) => outcome = "error"
        /\ outcome = "ok" => \A p \in RateParams : Len(args[p]) = g

\* num_lr_groups once dataset_type unsupervised counts as separate_ffn_lr
EffectiveGroups(bag) == IF bag.separate_ffn_lr \/ bag.dataset_type = "unsupervised" THEN 2 ELSE 1

\* C4 amended: with num_lr_groups = 1 + (1 if separate_ffn_lr is set or dataset_type is
\* unsupervised), a sequence with a length outside 1..num_lr_groups makes the resolution
\* raise at line 391, and a returned configuration has num_lrs = num_lr_groups and exactly
\* num_lr_groups entries in each remaining sequence.
C4_GroupCount ==
    LET g == EffectiveGroups(raw)
    IN  /\ (outcome # "idle" /\ BadGroupCount(raw, g)) => FailsAt({391}, 388)
        /\ outcome = "ok" => args.num_lrs = g /\ \A p \in RateParams : Len(args[p]) = g

C4_Witness ==
    /\ outcome = "ok" /\ raw.dataset_type = "unsupervised" /\ ~raw.separate_ffn_lr
    /\ Len(raw.init_lr) = 2 /\ Len(raw.max_lr) = 1 /\ Len(args.max_lr) = 2

\* a sequence broadcast to g groups
Broadcasted(s, g) == IF Len(s) = 1 /\ g = 2 THEN <<s[1], s[1]>> ELSE s

\* C5: in a returned configuration init_lr, max_lr and final_lr are the broadcast inputs
\* multiplied entry by entry, once, by the broadcast lr_scaler; warmup_epochs and
\* weight_decay are the broadcast inputs, two equal entries for a length-1 input with
\* separate_ffn_lr on; lr_scaler is no attribute of the configuration.
C5_BroadcastScale ==
    outcome = "ok" =>
        LET g == args.num_lrs
            sc == Broadcasted(raw.lr_scaler, g)
        IN  /\ \A p \in {"init_lr", "max_lr", "final_lr"} :
                  args[p] = [i \in 1..g |-> Broadcasted(raw[p], g)[i] * sc[i]]
            /\ \A p \in {"warmup_epochs", "weight_decay"} :
                  /\ args[p] = Broadcasted(raw[p], g)
                  /\ (raw.separate_ffn_lr /\ Len(raw[p]) = 1) => args[p] = <<raw[p][1], raw[p][1]>>
            /\ ~HasAttr(args, "lr_scaler")

C5_Witness ==
    /\ outcome = "ok" /\ raw.separate_ffn_lr
    /\ raw.init_lr = <<2>> /\ raw.lr_scaler = <<2, 3>> /\ args.init_lr = <<4, 6>>
    /\ raw.warmup_epochs = <<11>> /\ args.warmup_epochs = <<11, 11>>

\* the two split rules
SplitRules(bag) ==
    /\ (bag.split_type = "scaffold_overlap") <=> (bag.scaffold_overlap # None)
    /\ Cardinality({bag.split_type = "predetermined", bag.folds_file # None,
                    bag.test_fold_index # None}) = 1

\* C6: a returned configuration satisfies both split rules, and a bag breaking one of
\* them raises at line 412 or 413.
C6_SplitRules ==
    /\ outcome = "ok" => SplitRules(args)
    /\ (outcome # "idle" /\ ~SplitRules(raw)) => FailsAt({412, 413}, 412)

C6_Witness ==
    /\ outcome = "error" /\ err.line = 413
    /\ raw.split_type = "predetermined" /\ raw.folds_file # None /\ raw.test_fold_index = None

\* C7: with predict_features_and_task a configuration is returned only for dataset_type
\* regression and then has predict_features true; any other dataset_type raises at line 374.
C7_PredictFeaturesAndTask ==
    (outcome # "idle" /\ raw.predict_features_and_task) =>
        /\ outcome = "ok" => raw.dataset_type = "regression" /\ args.predict_features
        /\ raw.dataset_type # "regression" => FailsAt({374}, 373)

C7_Witness ==
    /\ outcome = "ok" /\ raw.predict_features_and_task /\ ~raw.predict_features
    /\ args.predict_features

\* C8 as stated: with jtnn a configuration is returned only when vocab_path was supplied
\* and exists, and a vocab_path not supplied or not existing raises the ValueError of
\* line 367 or 369.
C8_MissingVocabulary ==
    (outcome # "idle" /\ raw.jtnn) =>
        LET present == raw.vocab_path # None /\ Exists(fs, The(raw.vocab_path))
        IN  /\ outcome = "ok" => present
            /\ ~present => /\ outcome = "error"
                           /\ \/ err.at < 365
                              \/ err.exc = "ValueError" /\ err.line \in {367, 369}

\* the raise sites of the error taxonomy
TaxonomySites == {351, 314, 391, 359, 367, 369, 374, 382, 378, 403, 412, 413}

\* C9 as stated: a resolution returns a configuration or raises one error of the taxonomy.
C9_TaxonomyOnly ==
    /\ outcome \in {"idle", "ok", "error"}
    /\ outcome = "ok" <=> (outcome # "idle" /\ err = NoErr)
    /\ outcome = "error" => err.line \in TaxonomySites

\* C10 as stated: the temporary save_dir of every configuration returned so far exists.
C10_TempDirsAlive == \A d \in returned : IsDir(fs, d)

\* C11 as stated: a second resolution of an equal bag returns a configuration equal to the
\* first one field by field, save_dir included.
C11_AsStated == (prev # None /\ outcome = "ok") => args = The(prev)

\* C12: a configuration returned for a data_path naming a directory has
\* prespecified_chunk_dir set to that directory and data_path rewritten to a file that
\* exists under it, whatever the layout of the directory; for any other data_path
\* prespecified_chunk_dir is None and data_path is unchanged.
C12_ChunkDir ==
    outcome = "ok" =>
        IF IsDir(fs, raw.data_path)
        THEN /\ args.prespecified_chunk_dir = Some(raw.data_path)
             /\ IsFile(fs, args.data_path)
             /\ Len(args.data_path) > Len(raw.data_path)
             /\ SubSeq(args.data_path, 1, Len(raw.data_path)) = raw.data_path
        ELSE /\ args.prespecified_chunk_dir = None
             /\ args.data_path = raw.data_path

C12_Witness ==
    /\ outcome = "ok" /\ raw.data_path = <<"chunks">>
    /\ args.prespecified_chunk_dir = Some(<<"chunks">>) /\ args.data_path = <<"chunks", "a.csv">>

\* a feature-prediction pretraining mode is requested, directly or through
\* predict_features_and_task
PredictsFeatures(bag) == bag.predict_features \/ bag.predict_features_and_task

\* C13 as stated: in a returned configuration use_input_features is false when a
\* feature-prediction pretraining mode is requested, and otherwise true exactly when
\* features_generator or features_path was specified.
C13_AsStated ==
    outcome = "ok" =>
        IF PredictsFeatures(raw) THEN ~TruthyObj(args.use_input_features)
        ELSE TruthyObj(args.use_input_features)
                <=> (raw.features_generator # None \/ raw.features_path # None)

\* a list or a path that was given and is not empty
GivenNonEmpty(o) == o # None /\ Len(The(o)) > 0

\* C13 amended: in a returned configuration use_input_features is False when a
\* feature-prediction pretraining mode is requested, when kernel_func is features or
\* features_dot, or when dataset_type is bert_pretraining; in every other case it is the
\* object features_generator or features_path, true exactly when features_generator is a
\* non-empty list or features_path a non-empty path.
C13_UseInputFeatures ==
    outcome = "ok" =>
        IF \/ PredictsFeatures(raw)
           \/ raw.kernel_func \in {Some("features"), Some("features_dot")}
           \/ raw.dataset_type = "bert_pretraining"
        THEN args.use_input_features = Obj("bool", FALSE)
        ELSE /\ args.use_input_features.type \in {"list", "str", "NoneType"}
             /\ TruthyObj(args.use_input_features)
                   <=> (GivenNonEmpty(raw.features_generator) \/ GivenNonEmpty(raw.features_path))

C13_Witness ==
    /\ outcome = "ok" /\ raw.dataset_type = "bert_pretraining" /\ ~PredictsFeatures(raw)
    /\ raw.features_path # None /\ args.use_input_features = Obj("bool", FALSE)

\* the bag supplies a metric outside the allowed set of its dataset type
MetricBroken(bag) == bag.metric # None /\ The(bag.metric) \notin AllowedMetrics(bag.dataset_type)

\* the bag names a checkpoint directory holding no file named model.pt
NoCheckpoint(bag) == bag.checkpoint_dir # None /\ ModelFilesUnder(fs, The(bag.checkpoint_dir)) = {}

\* C14 as stated: for a bag that both names a checkpoint directory with no model.pt (a
\* Resolver step fails) and has an incompatible metric (a Validator check fails), the
\* error raised is the Resolver's, that of line 314.
C14_AsStated ==
    (outcome # "idle" /\ NoCheckpoint(raw) /\ MetricBroken(raw)) =>
        outcome = "error" /\ err.line = 314

\* the resolution raised, at line `line` of modify_train_args or before it
FailsBy(line) == outcome = "error" /\ err.at <= line

\* C14 amended: the checks and the resolving steps are interleaved in source order and the
\* first statement that fails raises: the metric check (line 359) runs before the
\* checkpoint discovery (line 363), which runs before the vocabulary, ffn_num_layers and
\* split checks, which run before the chunked-data detection (line 421). A bag with a
\* checkpoint directory with no model.pt and an incompatible metric raises the metric error.
C14_SourceOrder ==
    outcome # "idle" =>
        /\ MetricBroken(raw) => FailsBy(359)
        /\ NoCheckpoint(raw) => FailsBy(363)
        /\ (raw.jtnn /\ raw.vocab_path = None) => FailsBy(368)
        /\ raw.ffn_num_layers < 1 => FailsBy(403)
        /\ ~SplitRules(raw) => FailsBy(413)
        /\ (IsDir(fs, raw.data_path) /\ ~\E p \in AllFiles(fs) : Parent(p) = raw.data_path)
              => FailsBy(421)
        /\ (NoCheckpoint(raw) /\ MetricBroken(raw)) => FailsAt({359}, 336)

C14_Witness ==
    /\ outcome = "error" /\ NoCheckpoint(raw) /\ MetricBroken(raw)
    /\ err.line = 359 /\ ~HasAttr(args, "checkpoint_paths")

\* C15: for dataset_type unsupervised separate_ffn_lr is forced to true, so that num_lrs is
\* 2, sequences of length 1 and 2 are accepted and a returned configuration has two entries
\* in each rate sequence; for any other dataset_type separate_ffn_lr keeps the value
\* supplied and num_lrs is 1 + separate_ffn_lr.
C15_UnsupervisedSeparateLr ==
    /\ Passed(386) =>
          args.separate_ffn_lr = (raw.dataset_type = "unsupervised" \/ raw.separate_ffn_lr)
    /\ Passed(388) => args.num_lrs = IF args.separate_ffn_lr THEN 2 ELSE 1
    /\ (outcome # "idle" /\ raw.dataset_type = "unsupervised") =>
          /\ (\A p \in RateParams \cup {"lr_scaler"} : Len(raw[p]) \in {1, 2}) => err.line # 391
          /\ outcome = "ok" =>
                /\ args.num_lrs = 2
                /\ \A p \in RateParams : Len(args[p]) = 2
                /\ \A p \in {"warmup_epochs", "weight_decay"} :
                      Len(raw[p]) = 1 => args[p] = <<raw[p][1], raw[p][1]>>

C15_Witness ==
    /\ outcome = "ok" /\ raw.dataset_type = "unsupervised" /\ ~raw.separate_ffn_lr
    /\ args.separate_ffn_lr /\ args.num_lrs = 2
    /\ raw.warmup_epochs = <<11>> /\ args.warmup_epochs = <<11, 11>> /\ raw.weight_decay = <<13, 14>>

====
